---- MODULE Spec2Model ----
(***************************************************************************)
(* Model of the SmartStudy.AI scheduling core.                             *)
(*                                                                         *)
(*  - backend/server.py generate_schedule: the greedy scheduler together   *)
(*    with its persistence (delete planned sessions, insert one session    *)
(*    per await), as a coroutine per request on one asyncio event loop.    *)
(*  - backend/scheduler.py SchedulingEngine.generate_schedule: the CP-SAT  *)
(*    model (chunks, bounds, constraints) with the solver as a             *)
(*    nondeterministic choice among the assignments the model admits.      *)
(*                                                                         *)
(* Instants of the server are minutes since a Monday 00:00; instants of    *)
(* the engine are seconds since that Monday, because the engine truncates  *)
(* second offsets to minutes.                                              *)
(***************************************************************************)
EXTENDS Integers, Sequences, FiniteSets, TLC

\* ------------------------------------------------------------------------
\* Bounds of the model
\* ------------------------------------------------------------------------
MaxTime == 2
MaxEst == 2
MaxLen == 2
MaxBreak == 1
MaxRuns == 2
MaxEdits == 1
MaxTick == 4
MaxEffort == 3
EngTick == 45

\* ------------------------------------------------------------------------
\* Program constants
\* ------------------------------------------------------------------------
MinutesPerDay == 1440
MinutesPerHour == 60
SecondsPerMinute == 60
SecondsPerDay == 86400

DayNames == <<"monday", "tuesday", "wednesday", "thursday", "friday", "saturday", "sunday">>

Users == {"u1", "u2"}
Reqs == {"r1", "r2"}
NoReq == "none"

PLANNED == "planned"
SessionStatus == {"planned", "in_progress", "completed", "skipped"}
SchedulableStatus == {"pending", "in_progress"}

AwaitPcs == {"find_user", "find_tasks", "find_rules", "delete_many", "insert_one"}

VARIABLES
    db_users,      \* users collection: user id -> preferences
    db_tasks,      \* tasks collection, in storage order
    db_rules,      \* availability_rules collection, in storage order
    db_sessions,   \* study_sessions collection
    db_exceptions, \* availability_exceptions table, in storage order
    req,           \* request -> [user_id, start_date, end_date]
    pc,            \* request -> position of its coroutine
    loc,           \* request -> local variables of generate_schedule
    running,       \* the coroutine that holds the event loop, or NoReq
    nextId,        \* source of fresh session ids (uuid4)
    prior,         \* request -> the user's planned sessions when it entered
    conc,          \* request -> which other runs of its user it met
    runs,          \* number of runs started by the sequential client
    prevOut,       \* the sessions returned by the previous sequential run
    eng            \* one call of SchedulingEngine.generate_schedule

vars == <<db_users, db_tasks, db_rules, db_sessions, db_exceptions, req, pc, loc, running,
          nextId, prior, conc, runs, prevOut, eng>>

\* ------------------------------------------------------------------------
\* datetime helpers
\* ------------------------------------------------------------------------
Min(a, b) == IF a <= b THEN a ELSE b
Max(a, b) == IF a >= b THEN a ELSE b

\* current_date.strftime("%A").lower()
DayName(t) == DayNames[((t \div MinutesPerDay) % 7) + 1]

\* map(int, 'HH:MM'.split(':')); a time string HH:MM is encoded as HH*100+MM
ParseHour(s) == s \div 100
ParseMinute(s) == s % 100

\* current_date.replace(hour=h, minute=m, second=0, microsecond=0)
ReplaceTime(t, h, m) == (t \div MinutesPerDay) * MinutesPerDay + h * MinutesPerHour + m

\* ------------------------------------------------------------------------
\* task ordering (task_priority_key and sorted)
\* ------------------------------------------------------------------------
PriorityOrder(p) ==
    CASE p = "urgent" -> 0
      [] p = "high" -> 1
      [] p = "medium" -> 2
      [] p = "low" -> 3
      [] OTHER -> 2

\* a key that forgets the priority
TaskKeyDueOnly(task) == <<0, task.due_date>>

task_priority_key(task) == <<PriorityOrder(task.priority), task.due_date>>

KeyLess(a, b) == a[1] < b[1] \/ (a[1] = b[1] /\ a[2] < b[2])

RECURSIVE InsertSorted(_, _)
InsertSorted(s, x) ==
    IF s = <<>> THEN <<x>>
    ELSE IF KeyLess(task_priority_key(x), task_priority_key(Head(s)))
         THEN <<x>> \o s
         ELSE <<Head(s)>> \o InsertSorted(Tail(s), x)

\* sorted(tasks, key=task_priority_key): stable
RECURSIVE Sorted(_)
Sorted(s) ==
    IF s = <<>> THEN <<>>
    ELSE InsertSorted(Sorted(SubSeq(s, 1, Len(s) - 1)), s[Len(s)])

\* the engine, not called
EngOff == [pc |-> "off"]

\* ------------------------------------------------------------------------
\* persistence queries of generate_schedule
\* ------------------------------------------------------------------------
\* a query that forgets the status of the task
TaskFilterAnyStatus(t, u) == t.user_id = u

\* db.tasks.find({user_id, status in [pending, in_progress]}); a stored task
\* carries no completed_minutes, so task.get('completed_minutes', 0) is 0
TaskFilter(t, u) == t.user_id = u /\ t.status \in SchedulableStatus

FetchTasks(u) ==
    LET sel == SelectSeq(db_tasks, LAMBDA t : TaskFilter(t, u))
    IN  [i \in 1..Len(sel) |->
            [id |-> sel[i].id, priority |-> sel[i].priority,
             due_date |-> sel[i].due_date,
             estimated_minutes |-> sel[i].estimated_minutes,
             completed_minutes |-> 0]]

\* db.availability_rules.find({user_id})
FetchRules(u) == SelectSeq(db_rules, LAMBDA rl : rl.user_id = u)

\* a delete that forgets the status: every session of the user goes
PlannedFilterAnyStatus(s, u) == s.user_id = u

\* a delete that forgets the user: every planned session goes
PlannedFilterAnyUser(s, u) == s.status = PLANNED

\* a delete that matches nothing: the old plan stays
PlannedFilterNone(s, u) == FALSE

\* the filter of db.study_sessions.delete_many
PlannedFilter(s, u) == s.user_id = u /\ s.status = PLANNED

\* what a reader of the collection finds planned for user u
StoredPlanned(u) == {s \in db_sessions : s.user_id = u /\ s.status = "planned"}

\* a run is in flight from its first database answer to its return or failure
InFlight(r) == pc[r] \notin {"idle", "find_user", "done", "failed"}
Ended(r) == pc[r] \in {"done", "failed"}

\* ------------------------------------------------------------------------
\* the greedy loop's arithmetic
\* ------------------------------------------------------------------------
\* task.get('estimated_minutes') - task.get('completed_minutes', 0)
TaskRemaining(task) == task.estimated_minutes - task.completed_minutes

\* a chunk sized without the remainder of the task
SessionDurationWhole(session_length, task_remaining, available_minutes) ==
    Min(session_length, available_minutes)

\* min(session_length, task_remaining, available_minutes)
SessionDuration(session_length, task_remaining, available_minutes) ==
    Min(session_length, Min(task_remaining, available_minutes))

\* int((window_end - window_start).total_seconds() / 60)
AvailableMinutes(window_start, window_end) == window_end - window_start

\* a cursor that forgets the break
NextCursorNoBreak(session_end, break_length) == session_end

\* current_time = session_end + timedelta(minutes=break_length)
NextCursor(session_end, break_length) == session_end + break_length

\* a day loop that stays on its day
NextDayStuck(current_date) == current_date

\* current_date += timedelta(days=1)
NextDay(current_date) == current_date + MinutesPerDay

\* [r for r in rules if r['day_of_week'] == day_name]
DayRules(rules, day_name) == SelectSeq(rules, LAMBDA rl : rl.day_of_week = day_name)

\* ------------------------------------------------------------------------
\* local state of one generate_schedule call
\* ------------------------------------------------------------------------
NoSession == [id |-> 0, user_id |-> "", task_id |-> "", start_time |-> 0,
              end_time |-> 0, planned_minutes |-> 0, status |-> ""]

LocInit ==
    [session_length |-> 0, break_length |-> 0,
     tasks |-> <<>>, rules |-> <<>>, task_queue |-> <<>>,
     current_date |-> 0, day_rules |-> <<>>, rule_idx |-> 0,
     window_start |-> 0, window_end |-> 0,
     available_minutes |-> 0, current_time |-> 0,
     session_dict |-> NoSession, scheduled_sessions |-> <<>>,
     deleted |-> FALSE, message |-> ""]

\* the coroutine gives up the event loop exactly at its awaits
Holder(r, nextpc) == IF nextpc \in AwaitPcs \cup {"done", "failed"} THEN NoReq ELSE r

Goto(r, nextpc) == /\ pc' = [pc EXCEPT ![r] = nextpc]
                   /\ running' = Holder(r, nextpc)

\* ------------------------------------------------------------------------
\* generate_schedule, one action per await and per loop test
\* ------------------------------------------------------------------------
\* user = await db.users.find_one({"id": user_id})
FindUser(r) ==
    /\ pc[r] = "find_user" /\ running = NoReq
    /\ loc' = [loc EXCEPT ![r] = [LocInit EXCEPT
                  !.session_length = db_users[req[r].user_id].preferred_session_length,
                  !.break_length = db_users[req[r].user_id].break_preference]]
    /\ prior' = [prior EXCEPT ![r] = StoredPlanned(req[r].user_id)]
    /\ conc' = [q \in Reqs |->
                  IF q = r
                  THEN [overlapped |-> \E o \in Reqs \ {r} :
                                          req[o].user_id = req[r].user_id /\ InFlight(o),
                        superseded |-> FALSE]
                  ELSE IF req[q].user_id # req[r].user_id THEN conc[q]
                  ELSE [overlapped |-> conc[q].overlapped \/ InFlight(q),
                        superseded |-> conc[q].superseded \/ Ended(q)]]
    /\ Goto(r, "find_tasks")
    /\ UNCHANGED <<db_exceptions, db_users, db_tasks, db_rules, db_sessions, req, nextId, runs, prevOut, eng>>

\* tasks = await db.tasks.find(...); if not tasks: return
FindTasks(r) ==
    /\ pc[r] = "find_tasks" /\ running = NoReq
    /\ LET tasks == FetchTasks(req[r].user_id)
       IN  IF tasks = <<>>
           THEN /\ loc' = [loc EXCEPT ![r].message = "No pending tasks to schedule"]
                /\ Goto(r, "done")
           ELSE /\ loc' = [loc EXCEPT ![r].tasks = tasks]
                /\ Goto(r, "find_rules")
    /\ UNCHANGED <<db_exceptions, db_users, db_tasks, db_rules, db_sessions, req, nextId, prior, conc, runs, prevOut, eng>>

\* rules = await db.availability_rules.find(...); if not rules: return
FindRules(r) ==
    /\ pc[r] = "find_rules" /\ running = NoReq
    /\ LET rules == FetchRules(req[r].user_id)
       IN  IF rules = <<>>
           THEN /\ loc' = [loc EXCEPT ![r].message = "Please set your availability first"]
                /\ Goto(r, "done")
           ELSE /\ loc' = [loc EXCEPT ![r].rules = rules]
                /\ Goto(r, "delete_many")
    /\ UNCHANGED <<db_exceptions, db_users, db_tasks, db_rules, db_sessions, req, nextId, prior, conc, runs, prevOut, eng>>

\* await db.study_sessions.delete_many(...), then the set-up of the loop
DeleteMany(r) ==
    /\ pc[r] = "delete_many" /\ running = NoReq
    /\ db_sessions' = {s \in db_sessions : ~PlannedFilter(s, req[r].user_id)}
    /\ loc' = [loc EXCEPT ![r].task_queue = Sorted(loc[r].tasks),
                          ![r].current_date = req[r].start_date,
                          ![r].deleted = TRUE]
    /\ Goto(r, "while_day")
    /\ UNCHANGED <<db_exceptions, db_users, db_tasks, db_rules, req, nextId, prior, conc, runs, prevOut, eng>>

\* while current_date < end_date and task_queue: ... day_rules = [...]
WhileDay(r) ==
    /\ pc[r] = "while_day" /\ running = r
    /\ IF loc[r].current_date < req[r].end_date /\ loc[r].task_queue # <<>>
       THEN /\ loc' = [loc EXCEPT
                         ![r].day_rules = DayRules(loc[r].rules, DayName(loc[r].current_date)),
                         ![r].rule_idx = 1]
            /\ Goto(r, "for_rule")
       ELSE /\ loc' = loc
            /\ Goto(r, "return")
    /\ UNCHANGED <<db_exceptions, db_users, db_tasks, db_rules, db_sessions, req, nextId, prior, conc, runs, prevOut, eng>>

\* for rule in day_rules: if not task_queue: break; window of the rule;
\* after the loop: current_date += timedelta(days=1)
ForRule(r) ==
    /\ pc[r] = "for_rule" /\ running = r
    /\ IF loc[r].rule_idx > Len(loc[r].day_rules) \/ loc[r].task_queue = <<>>
       THEN /\ loc' = [loc EXCEPT ![r].current_date = NextDay(loc[r].current_date)]
            /\ Goto(r, "while_day")
       ELSE LET rule == loc[r].day_rules[loc[r].rule_idx]
                window_start == ReplaceTime(loc[r].current_date,
                                    ParseHour(rule.start_time), ParseMinute(rule.start_time))
                window_end == ReplaceTime(loc[r].current_date,
                                    ParseHour(rule.end_time), ParseMinute(rule.end_time))
            IN  /\ loc' = [loc EXCEPT
                             ![r].window_start = window_start,
                             ![r].window_end = window_end,
                             ![r].available_minutes = AvailableMinutes(window_start, window_end),
                             ![r].current_time = window_start]
                /\ Goto(r, "while_slot")
    /\ UNCHANGED <<db_exceptions, db_users, db_tasks, db_rules, db_sessions, req, nextId, prior, conc, runs, prevOut, eng>>

\* while available_minutes >= session_length and task_queue: size the next
\* session of the head task and build session_dict
WhileSlot(r) ==
    /\ pc[r] = "while_slot" /\ running = r
    /\ IF loc[r].available_minutes >= loc[r].session_length /\ loc[r].task_queue # <<>>
       THEN LET task == Head(loc[r].task_queue)
                task_remaining == TaskRemaining(task)
                session_duration == SessionDuration(loc[r].session_length, task_remaining,
                                                    loc[r].available_minutes)
            IN  IF task_remaining <= 0
                THEN /\ loc' = [loc EXCEPT ![r].task_queue = Tail(loc[r].task_queue)]
                     /\ nextId' = nextId
                     /\ Goto(r, "while_slot")
                ELSE /\ loc' = [loc EXCEPT ![r].session_dict =
                                  [id |-> nextId, user_id |-> req[r].user_id,
                                   task_id |-> task.id,
                                   start_time |-> loc[r].current_time,
                                   end_time |-> loc[r].current_time + session_duration,
                                   planned_minutes |-> session_duration,
                                   status |-> PLANNED]]
                     /\ nextId' = nextId + 1
                     /\ Goto(r, "insert_one")
       ELSE /\ loc' = [loc EXCEPT ![r].rule_idx = loc[r].rule_idx + 1]
            /\ nextId' = nextId
            /\ Goto(r, "for_rule")
    /\ UNCHANGED <<db_exceptions, db_users, db_tasks, db_rules, db_sessions, req, prior, conc, runs, prevOut, eng>>

\* await db.study_sessions.insert_one(session_dict), then the bookkeeping
InsertOne(r) ==
    /\ pc[r] = "insert_one" /\ running = NoReq
    /\ db_sessions' = db_sessions \cup {loc[r].session_dict}
    /\ LET sd == loc[r].session_dict
           task == Head(loc[r].task_queue)
           done == task.completed_minutes + sd.planned_minutes
           task2 == [task EXCEPT !.completed_minutes = done]
       IN  loc' = [loc EXCEPT
                     ![r].scheduled_sessions = Append(loc[r].scheduled_sessions, sd),
                     ![r].task_queue = IF done >= task.estimated_minutes
                                       THEN Tail(loc[r].task_queue)
                                       ELSE <<task2>> \o Tail(loc[r].task_queue),
                     ![r].current_time = NextCursor(sd.end_time, loc[r].break_length),
                     ![r].available_minutes = loc[r].available_minutes
                                               - (sd.planned_minutes + loc[r].break_length)]
    /\ Goto(r, "while_slot")
    /\ UNCHANGED <<db_exceptions, db_users, db_tasks, db_rules, req, nextId, prior, conc, runs, prevOut, eng>>

\* return {"sessions": scheduled_sessions, "message": ...}
Return(r) ==
    /\ pc[r] = "return" /\ running = r
    /\ loc' = [loc EXCEPT ![r].message = "created"]
    /\ Goto(r, "done")
    /\ UNCHANGED <<db_exceptions, db_users, db_tasks, db_rules, db_sessions, req, nextId, prior, conc, runs, prevOut, eng>>

\* a session as the caller sees it, without the random id
StripId(s) == [task_id |-> s.task_id, start_time |-> s.start_time,
               end_time |-> s.end_time, planned_minutes |-> s.planned_minutes]

StripIds(seq) == [i \in 1..Len(seq) |-> StripId(seq[i])]

\* the client repeats its request with the same body
Rerun(r) ==
    /\ pc[r] = "done" /\ runs < MaxRuns
    /\ runs' = runs + 1
    /\ prevOut' = StripIds(loc[r].scheduled_sessions)
    /\ pc' = [pc EXCEPT ![r] = "find_user"]
    /\ UNCHANGED <<db_exceptions, db_users, db_tasks, db_rules, db_sessions, req, loc, running, nextId, prior, conc, eng>>

\* ------------------------------------------------------------------------
\* inputs
\* ------------------------------------------------------------------------
RuleDays == {"monday", "tuesday"}
RuleTimes == 0..MaxTime
\* (priority, due date) pairs: the two sort keys agree, disagree and tie
TaskProfiles == {<<"high", 2 * MinutesPerDay>>, <<"low", 1>>, <<"low", 2 * MinutesPerDay>>}

\* rules 00:0a-00:0b on the first two weekdays, empty windows included
RuleDomain(u) == {rl \in [user_id : {u}, day_of_week : RuleDays,
                          start_time : RuleTimes, end_time : RuleTimes] :
                     rl.start_time <= rl.end_time}

TaskDomain(u, id) == {[id |-> id, user_id |-> u, priority |-> pf[1], due_date |-> pf[2],
                       estimated_minutes |-> e, status |-> "pending"] :
                         pf \in TaskProfiles, e \in 1..MaxEst}

RuleLists(u) == {<<>>} \cup {<<a>> : a \in RuleDomain(u)}
                \cup {<<a, b>> : a \in RuleDomain(u), b \in RuleDomain(u)}

TaskLists(u) == {<<>>} \cup {<<a>> : a \in TaskDomain(u, "t1")}
                \cup {<<a, b>> : a \in TaskDomain(u, "t1"), b \in TaskDomain(u, "t2")}

Prefs == [preferred_session_length : 1..MaxLen, break_preference : 0..MaxBreak]

\* one request of user u1 over the two days from Monday 00:00
InitWith(taskLists, ruleLists) ==
    /\ db_users \in [Users -> Prefs]
    /\ db_users["u2"] = db_users["u1"]
    /\ db_tasks \in taskLists
    /\ db_rules \in ruleLists
    /\ db_sessions = {}
    /\ db_exceptions = <<>>
    /\ req = [r \in Reqs |-> [user_id |-> "u1", start_date |-> 0,
                              end_date |-> 2 * MinutesPerDay]]
    /\ pc = [r \in Reqs |-> IF r = "r1" THEN "find_user" ELSE "idle"]
    /\ loc = [r \in Reqs |-> LocInit]
    /\ running = NoReq
    /\ nextId = 1
    /\ prior = [r \in Reqs |-> {}]
    /\ conc = [r \in Reqs |-> [overlapped |-> FALSE, superseded |-> FALSE]]
    /\ runs = 1
    /\ prevOut = <<>>
    /\ eng = EngOff

Init == InitWith(TaskLists("u1"), RuleLists("u1"))

Step(r) == \/ FindUser(r) \/ FindTasks(r) \/ FindRules(r) \/ DeleteMany(r)
           \/ WhileDay(r) \/ ForRule(r) \/ WhileSlot(r) \/ InsertOne(r)
           \/ Return(r)

Next == \E r \in Reqs : Step(r)

Spec == Init /\ [][Next]_vars

\* the same request sent MaxRuns times in a row, nothing else touching the data
InitRerun == InitWith({tl \in TaskLists("u1") : \A i \in 1..Len(tl) : tl[i].priority = "low"},
                      RuleLists("u1"))

NextRerun == \E r \in Reqs : Step(r) \/ Rerun(r)

SpecRerun == InitRerun /\ [][NextRerun]_vars

\* tasks of every priority, due early or late, for the order of the queue
OrderTaskDomain(u, id) ==
    {[id |-> id, user_id |-> u, priority |-> p, due_date |-> d,
      estimated_minutes |-> e, status |-> "pending"] :
        p \in {"urgent", "high", "medium", "low"}, d \in {1, 2 * MinutesPerDay},
        e \in 1..MaxEst}

OrderTaskLists(u) == {<<>>} \cup {<<a>> : a \in OrderTaskDomain(u, "t1")}
                     \cup {<<a, b>> : a \in OrderTaskDomain(u, "t1"),
                                      b \in OrderTaskDomain(u, "t2")}

\* the window 00:00-00:0MaxTime on Monday and on Tuesday
OrderRuleLists(u) ==
    {<<>>, <<[user_id |-> u, day_of_week |-> "monday", start_time |-> 0, end_time |-> MaxTime],
             [user_id |-> u, day_of_week |-> "tuesday", start_time |-> 0, end_time |-> MaxTime]>>}

InitOrder == InitWith(OrderTaskLists("u1"), OrderRuleLists("u1"))

SpecOrder == InitOrder /\ [][Next]_vars

\* rules that start in the first two minutes of the day and are up to
\* MaxTime + 1 minutes long: room for two sessions with a break between them
WalkRuleDomain(u) == {rl \in [user_id : {u}, day_of_week : RuleDays,
                              start_time : {0, 1}, end_time : 0..(MaxTime + 1)] :
                         rl.start_time <= rl.end_time}

WalkRuleLists(u) == {<<>>} \cup {<<a>> : a \in WalkRuleDomain(u)}
                    \cup {<<a, b>> : a \in WalkRuleDomain(u), b \in WalkRuleDomain(u)}

\* low-priority tasks due at the end of the horizon; estimated_minutes has
\* no minimum in TaskBase, so a task may ask for no minutes at all
WalkTaskDomain(u, id) == {[id |-> id, user_id |-> u, priority |-> "low",
                           due_date |-> 2 * MinutesPerDay,
                           estimated_minutes |-> e, status |-> "pending"] :
                             e \in 0..MaxEst}

WalkTaskLists(u) == {<<>>} \cup {<<a>> : a \in WalkTaskDomain(u, "t1")}
                    \cup {<<a, b>> : a \in WalkTaskDomain(u, "t1"),
                                     b \in WalkTaskDomain(u, "t2")}

InitWalk == InitWith(WalkTaskLists("u1"), WalkRuleLists("u1"))

SpecWalk == InitWalk /\ [][Next]_vars

\* the event loop resumes the coroutine whenever it can run, and every
\* database call it awaits returns
SpecWalkFair == InitWalk /\ [][Next]_vars /\ WF_vars(Next)

\* ------------------------------------------------------------------------
\* the user finishes tasks and removes rules between two requests
\* ------------------------------------------------------------------------
\* POST /tasks/{task_id}/complete: update_one sets the status to completed
complete_task(i) ==
    /\ running = NoReq
    /\ i \in 1..Len(db_tasks) /\ db_tasks[i].status # "completed"
    /\ db_tasks' = [db_tasks EXCEPT ![i].status = "completed"]
    /\ UNCHANGED <<db_exceptions, db_users, db_rules, db_sessions, req, pc, loc, running,
                   nextId, prior, conc, runs, prevOut, eng>>

\* DELETE /availability/rules/{rule_id}: delete_one removes the rule
delete_availability_rule(i) ==
    /\ running = NoReq
    /\ i \in 1..Len(db_rules)
    /\ db_rules' = SubSeq(db_rules, 1, i - 1) \o SubSeq(db_rules, i + 1, Len(db_rules))
    /\ UNCHANGED <<db_exceptions, db_users, db_tasks, db_sessions, req, pc, loc, running,
                   nextId, prior, conc, runs, prevOut, eng>>

\* Monday rules from 00:00, with or without room
EarlyRuleDomain(u) == {rl \in RuleDomain(u) :
                          /\ rl.day_of_week = "monday" /\ rl.start_time = 0
                          /\ rl.end_time \in {0, MaxTime}}

EarlyRuleLists(u) == {<<>>} \cup {<<a>> : a \in EarlyRuleDomain(u)}
                     \cup {<<a, b>> : a \in EarlyRuleDomain(u), b \in EarlyRuleDomain(u)}

InitEarly == InitWith(WalkTaskLists("u1"), EarlyRuleLists("u1"))

NextEarly == \/ \E r \in Reqs : Step(r) \/ Rerun(r)
             \/ \E i \in 1..Len(db_tasks) : complete_task(i)
             \/ \E i \in 1..Len(db_rules) : delete_availability_rule(i)

SpecEarly == InitEarly /\ [][NextEarly]_vars

\* horizons that start at or after Monday 00:00 and end on Monday or Tuesday,
\* at any minute up to MaxTime, so both ends can fall inside a rule window
Horizons == {h \in [start_date : 0..MaxTime,
                    end_date : (0..MaxTime) \cup {MinutesPerDay + k : k \in 0..MaxTime}] :
                h.start_date <= h.end_date}

HorizonTaskLists(u) == {tl \in TaskLists(u) : \A i \in 1..Len(tl) : tl[i].priority = "low"}

HorizonRuleLists(u) == {rl \in RuleLists(u) : Len(rl) <= 1}

\* one request of user u1 with any of the horizons
InitHorizon ==
    /\ db_users \in [Users -> Prefs]
    /\ db_users["u2"] = db_users["u1"]
    /\ db_tasks \in HorizonTaskLists("u1")
    /\ db_rules \in HorizonRuleLists("u1")
    /\ db_sessions = {}
    /\ db_exceptions = <<>>
    /\ \E h \in Horizons :
          req = [r \in Reqs |-> [user_id |-> "u1", start_date |-> h.start_date,
                                 end_date |-> h.end_date]]
    /\ pc = [r \in Reqs |-> IF r = "r1" THEN "find_user" ELSE "idle"]
    /\ loc = [r \in Reqs |-> LocInit]
    /\ running = NoReq
    /\ nextId = 1
    /\ prior = [r \in Reqs |-> {}]
    /\ conc = [r \in Reqs |-> [overlapped |-> FALSE, superseded |-> FALSE]]
    /\ runs = 1
    /\ prevOut = <<>>
    /\ eng = EngOff

SpecHorizon == InitHorizon /\ [][Next]_vars

\* an exception without times (start_time and end_time are None)
NoTime == -1

\* date exceptions on the two days of the horizon: a whole day blocked or
\* added, or the range 00:00-00:0MaxTime blocked or added
ExceptionDomain(u) ==
    {[user_id |-> u, date |-> d, start_time |-> tm[1], end_time |-> tm[2],
      is_available |-> a] :
        d \in {0, MinutesPerDay}, tm \in {<<NoTime, NoTime>>, <<0, MaxTime>>},
        a \in BOOLEAN}

ExceptionLists(u) == {<<>>} \cup {<<e>> : e \in ExceptionDomain(u)}

\* one request of user u1 over Monday and Tuesday, with stored exceptions
InitExceptions ==
    /\ db_users \in [Users -> Prefs]
    /\ db_users["u2"] = db_users["u1"]
    /\ db_tasks \in HorizonTaskLists("u1")
    /\ db_rules \in HorizonRuleLists("u1")
    /\ db_sessions = {}
    /\ db_exceptions \in ExceptionLists("u1")
    /\ req = [r \in Reqs |-> [user_id |-> "u1", start_date |-> 0,
                              end_date |-> 2 * MinutesPerDay]]
    /\ pc = [r \in Reqs |-> IF r = "r1" THEN "find_user" ELSE "idle"]
    /\ loc = [r \in Reqs |-> LocInit]
    /\ running = NoReq
    /\ nextId = 1
    /\ prior = [r \in Reqs |-> {}]
    /\ conc = [r \in Reqs |-> [overlapped |-> FALSE, superseded |-> FALSE]]
    /\ runs = 1
    /\ prevOut = <<>>
    /\ eng = EngOff

SpecExceptions == InitExceptions /\ [][Next]_vars

\* ------------------------------------------------------------------------
\* concurrent requests
\* ------------------------------------------------------------------------
\* the request is cancelled, or the database call raises, at an await:
\* generate_schedule has no handler, so the coroutine ends there
Fail(r) ==
    /\ pc[r] \in AwaitPcs /\ running = NoReq
    /\ InFlight(r)
    /\ Goto(r, "failed")
    /\ UNCHANGED <<db_exceptions, db_users, db_tasks, db_rules, db_sessions, req, loc, nextId,
                   prior, conc, runs, prevOut, eng>>

\* the session life cycle: planned -> in_progress -> completed, planned -> skipped
SessionTransitions == {<<"planned", "in_progress">>, <<"in_progress", "completed">>,
                       <<"planned", "skipped">>}

\* the status changes a stored session has gone through
EditsOf(s) == CASE s.status = "planned" -> 0
                [] s.status = "completed" -> 2
                [] OTHER -> 1

RECURSIVE EditsDone(_)
EditsDone(S) == IF S = {} THEN 0
                ELSE LET s == CHOOSE x \in S : TRUE
                     IN  EditsOf(s) + EditsDone(S \ {s})

\* a session is started, finished or skipped by its user (StudySessionUpdate)
UpdateSession(s, st) ==
    /\ running = NoReq
    /\ s \in db_sessions
    /\ EditsDone(db_sessions) < MaxEdits
    /\ <<s.status, st>> \in SessionTransitions
    /\ db_sessions' = (db_sessions \ {s}) \cup {[s EXCEPT !.status = st]}
    /\ UNCHANGED <<db_exceptions, db_users, db_tasks, db_rules, req, pc, loc, running, nextId,
                   prior, conc, runs, prevOut, eng>>

\* small inputs for the interleavings: at most one task and one Monday rule per user
ConcTaskLists(u, id) == {<<>>} \cup {<<t>> : t \in {x \in TaskDomain(u, id) :
                                        x.priority = "low" /\ x.due_date > 1}}

ConcRuleLists(u) == {<<>>} \cup {<<rl>> : rl \in {x \in RuleDomain(u) :
                                    /\ x.day_of_week = "monday"
                                    /\ x.start_time = 0 /\ x.end_time = MaxTime}}

\* sessions back to back, every length up to MaxLen
ConcPrefs == {pf \in Prefs : pf.break_preference = 0}

\* two requests, of the same user or of two users, both about to start
InitConc ==
    /\ db_users \in [Users -> ConcPrefs]
    /\ db_users["u2"] = db_users["u1"]
    /\ \E t1 \in ConcTaskLists("u1", "t1"), t2 \in ConcTaskLists("u2", "t2") :
          db_tasks = t1 \o t2
    /\ \E r1 \in ConcRuleLists("u1"), r2 \in ConcRuleLists("u2") :
          db_rules = r1 \o r2
    /\ db_sessions = {}
    /\ db_exceptions = <<>>
    /\ \E u \in Users :
          req = [r \in Reqs |-> [user_id |-> IF r = "r1" THEN "u1" ELSE u,
                                 start_date |-> 0, end_date |-> 2 * MinutesPerDay]]
    /\ pc = [r \in Reqs |-> "find_user"]
    /\ loc = [r \in Reqs |-> LocInit]
    /\ running = NoReq
    /\ nextId = 1
    /\ prior = [r \in Reqs |-> {}]
    /\ conc = [r \in Reqs |-> [overlapped |-> FALSE, superseded |-> FALSE]]
    /\ runs = 1
    /\ prevOut = <<>>
    /\ eng = EngOff

NextConc == \/ \E r \in Reqs : Step(r) \/ Fail(r)
            \/ \E s \in db_sessions, st \in SessionStatus : UpdateSession(s, st)

SpecConc == InitConc /\ [][NextConc]_vars

\* ------------------------------------------------------------------------
\* SchedulingEngine.generate_schedule (instants in seconds)
\* ------------------------------------------------------------------------
\* int(x.total_seconds() / 60): truncation toward zero
TruncDiv(a, b) == IF a >= 0 THEN a \div b ELSE -((-a) \div b)

\* num_sessions = max(1, (estimated_minutes + P - 1) // P)
NumSessions(estimated_minutes, P) == Max(1, (estimated_minutes + P - 1) \div P)

\* a decomposition that gives every chunk the full session length
ChunkDurationFull(estimated_minutes, P, session_idx) == P

\* session_duration = min(P, estimated_minutes - session_idx * P)
ChunkDuration(estimated_minutes, P, session_idx) ==
    Min(P, estimated_minutes - session_idx * P)

\* due_date_minutes = int((task['due_date'] - start_date).total_seconds() / 60)
DueDateMinutes(due_date, start_date) == TruncDiv(due_date - start_date, SecondsPerMinute)

\* a latest start one minute too early
MaxStartEarly(due_date_minutes, session_duration) ==
    Max(0, due_date_minutes - session_duration - 1)

\* max_start = max(0, due_date_minutes - session_duration)
MaxStart(due_date_minutes, session_duration) == Max(0, due_date_minutes - session_duration)

\* the chunk variables of one task: start in [0, min(time_horizon, max_start)],
\* end in [0, time_horizon], end == start + duration
TaskChunks(task, P, start_date, time_horizon) ==
    [k \in 1..NumSessions(task.estimated_minutes, P) |->
        LET duration == ChunkDuration(task.estimated_minutes, P, k - 1)
        IN  [task_id |-> task.id, session_idx |-> k - 1, duration |-> duration,
             start_ub |-> Min(time_horizon,
                              MaxStart(DueDateMinutes(task.due_date, start_date), duration)),
             end_ub |-> time_horizon]]

\* session_vars, in insertion order (for task in tasks: for session_idx ...)
RECURSIVE BuildChunks(_, _, _, _)
BuildChunks(tasks, P, start_date, time_horizon) ==
    IF tasks = <<>> THEN <<>>
    ELSE TaskChunks(Head(tasks), P, start_date, time_horizon)
         \o BuildChunks(Tail(tasks), P, start_date, time_horizon)

\* window_start_minutes, window_end_minutes
WindowMinutes(w, start_date) ==
    [start |-> TruncDiv(w.start - start_date, SecondsPerMinute),
     end |-> TruncDiv(w.end - start_date, SecondsPerMinute)]

\* AddBoolOr(window_vars) with both OnlyEnforceIf constraints of the chosen window
InSomeWindow(start, end, windows, start_date) ==
    \E i \in 1..Len(windows) :
        /\ start >= WindowMinutes(windows[i], start_date).start
        /\ end <= WindowMinutes(windows[i], start_date).end

\* AddNoOverlap([interval_i, interval_j])
NoOverlap(s1, d1, s2, d2) == s1 + d1 <= s2 \/ s2 + d2 <= s1

\* the assignments the constraints admit for the chunks from position i on,
\* given the starts chosen for the chunks before i
RECURSIVE Extend(_, _, _, _, _)
Extend(partial, i, chunks, windows, start_date) ==
    IF i > Len(chunks) THEN {partial}
    ELSE UNION { Extend(Append(partial, st), i + 1, chunks, windows, start_date) :
                 st \in {x \in 0..chunks[i].start_ub :
                           /\ x + chunks[i].duration >= 0
                           /\ x + chunks[i].duration <= chunks[i].end_ub
                           /\ InSomeWindow(x, x + chunks[i].duration, windows, start_date)
                           /\ \A j \in 1..Len(partial) :
                                NoOverlap(partial[j], chunks[j].duration,
                                          x, chunks[i].duration)} }

FeasibleAssignments(chunks, windows, start_date) ==
    Extend(<<>>, 1, chunks, windows, start_date)

\* an urgency that puts exactly one day in the second tier
CalculateUrgencyStrict(due_date, current_date) ==
    LET days_until_due == (due_date - current_date) \div SecondsPerDay
    IN  IF days_until_due < 1 THEN 10
        ELSE IF days_until_due <= 3 THEN 7
        ELSE IF days_until_due <= 7 THEN 5
        ELSE IF days_until_due <= 14 THEN 3
        ELSE 1

\* an urgency that gives a task already past its due date the lowest tier
CalculateUrgencyNoOverdue(due_date, current_date) ==
    LET days_until_due == (due_date - current_date) \div SecondsPerDay
    IN  IF days_until_due < 0 THEN 1
        ELSE IF days_until_due <= 1 THEN 10
        ELSE IF days_until_due <= 3 THEN 7
        ELSE IF days_until_due <= 7 THEN 5
        ELSE IF days_until_due <= 14 THEN 3
        ELSE 1

\* _calculate_urgency: (due_date - current_date).days is a floor
CalculateUrgency(due_date, current_date) ==
    LET days_until_due == (due_date - current_date) \div SecondsPerDay
    IN  IF days_until_due <= 1 THEN 10
        ELSE IF days_until_due <= 3 THEN 7
        ELSE IF days_until_due <= 7 THEN 5
        ELSE IF days_until_due <= 14 THEN 3
        ELSE 1

\* _get_priority_weight
GetPriorityWeight(priority) ==
    CASE priority = "urgent" -> 10
      [] priority = "high" -> 7
      [] priority = "medium" -> 5
      [] priority = "low" -> 3
      [] OTHER -> 5

EngTask(tasks, task_id) == CHOOSE t \in {tasks[i] : i \in 1..Len(tasks)} : t.id = task_id

\* urgency * priority_weight, the factor of a chunk's end in objective_terms
Coefficient(task, start_date) ==
    CalculateUrgency(task.due_date, start_date) * GetPriorityWeight(task.priority)

\* objective_terms, as the factor of each term, in session_vars order
ObjectiveTerms(chunks, tasks, start_date) ==
    [i \in 1..Len(chunks) |-> Coefficient(EngTask(tasks, chunks[i].task_id), start_date)]

\* sum(session_info['end'] * urgency * priority_weight)
RECURSIVE ObjectiveFrom(_, _, _, _, _)
ObjectiveFrom(i, chunks, asg, tasks, start_date) ==
    IF i > Len(chunks) THEN 0
    ELSE (asg[i] + chunks[i].duration)
           * ObjectiveTerms(chunks, tasks, start_date)[i]
         + ObjectiveFrom(i + 1, chunks, asg, tasks, start_date)

Objective(chunks, asg, tasks, start_date) == ObjectiveFrom(1, chunks, asg, tasks, start_date)

SolverStatus == {"OPTIMAL", "FEASIBLE", "INFEASIBLE", "UNKNOWN"}

\* lines 43-147: the early return, then the variables and constraints
BuildModel ==
    /\ eng.pc = "build"
    /\ IF eng.tasks = <<>> \/ eng.windows = <<>>
       THEN eng' = [eng EXCEPT !.pc = "done"]
       ELSE LET time_horizon == TruncDiv(eng.end_date - eng.start_date, SecondsPerMinute)
            IN  eng' = [eng EXCEPT
                          !.pc = "solve",
                          !.time_horizon = time_horizon,
                          !.session_vars = BuildChunks(eng.tasks, eng.P, eng.start_date,
                                                       time_horizon),
                          !.feasible = FeasibleAssignments(
                                          BuildChunks(eng.tasks, eng.P, eng.start_date,
                                                      time_horizon),
                                          eng.windows, eng.start_date),
                          !.objective_terms = ObjectiveTerms(
                                          BuildChunks(eng.tasks, eng.P, eng.start_date,
                                                      time_horizon),
                                          eng.tasks, eng.start_date)]
    /\ UNCHANGED <<db_exceptions, db_users, db_tasks, db_rules, db_sessions, req, pc, loc, running,
                   nextId, prior, conc, runs, prevOut>>

\* status = solver.Solve(model) within max_time_in_seconds: an optimum, a
\* feasible assignment, a proof that there is none, or nothing in time
Solve(status, asg) ==
    /\ eng.pc = "solve"
    /\ CASE status = "INFEASIBLE" -> eng.feasible = {} /\ asg = <<>>
         [] status = "UNKNOWN" -> asg = <<>>
         [] status = "FEASIBLE" -> asg \in eng.feasible
         [] status = "OPTIMAL" ->
              /\ asg \in eng.feasible
              /\ \A other \in eng.feasible :
                   Objective(eng.session_vars, asg, eng.tasks, eng.start_date)
                     <= Objective(eng.session_vars, other, eng.tasks, eng.start_date)
    /\ eng' = [eng EXCEPT !.pc = "extract", !.status = status, !.solution = asg]
    /\ UNCHANGED <<db_exceptions, db_users, db_tasks, db_rules, db_sessions, req, pc, loc, running,
                   nextId, prior, conc, runs, prevOut>>

\* sessions only for a proven optimum
HasSolutionOptimalOnly(status) == status = "OPTIMAL"

\* if status in [cp_model.OPTIMAL, cp_model.FEASIBLE]
HasSolution(status) == status \in {"OPTIMAL", "FEASIBLE"}

\* lines 155-179: the sessions of the solution, in session_vars order
Extract ==
    /\ eng.pc = "extract"
    /\ eng' = [eng EXCEPT
                 !.pc = "done",
                 !.scheduled_sessions =
                     IF HasSolution(eng.status)
                     THEN [i \in 1..Len(eng.session_vars) |->
                             LET session_start == eng.start_date
                                                    + eng.solution[i] * SecondsPerMinute
                             IN  [task_id |-> eng.session_vars[i].task_id,
                                  start_time |-> session_start,
                                  end_time |-> session_start
                                       + eng.session_vars[i].duration * SecondsPerMinute,
                                  planned_minutes |-> eng.session_vars[i].duration,
                                  status |-> PLANNED]]
                     ELSE <<>>]
    /\ UNCHANGED <<db_exceptions, db_users, db_tasks, db_rules, db_sessions, req, pc, loc, running,
                   nextId, prior, conc, runs, prevOut>>

\* engine inputs: instants every EngTick seconds from start_date
EngTimes == {k * EngTick : k \in 0..MaxTick}

EngWindows == {w \in [start : EngTimes, end : EngTimes] : w.start < w.end}

\* at most two windows, the earlier start first
EngWindowLists == {<<>>} \cup {<<a>> : a \in EngWindows}
                  \cup {<<p[1], p[2]>> : p \in {q \in EngWindows \X EngWindows :
                                                    q[1].start <= q[2].start}}

\* due before the first whole minute, after one minute, at the end of the horizon
EngDues == {EngTick, SecondsPerMinute, MaxTick * EngTick}

EngPriorities == {"urgent", "low"}

EngTaskDomain(id) == [id : {id}, due_date : EngDues, priority : EngPriorities,
                      estimated_minutes : 1..MaxEffort]

EngTaskLists == {<<>>} \cup {<<a>> : a \in EngTaskDomain("t1")}
                \cup {<<a, b>> : a \in EngTaskDomain("t1"), b \in EngTaskDomain("t2")}

InitEngine ==
    /\ db_users = [u \in Users |-> [preferred_session_length |-> 1, break_preference |-> 0]]
    /\ db_tasks = <<>>
    /\ db_rules = <<>>
    /\ db_sessions = {}
    /\ db_exceptions = <<>>
    /\ req = [r \in Reqs |-> [user_id |-> "u1", start_date |-> 0, end_date |-> 0]]
    /\ pc = [r \in Reqs |-> "idle"]
    /\ loc = [r \in Reqs |-> LocInit]
    /\ running = NoReq
    /\ nextId = 1
    /\ prior = [r \in Reqs |-> {}]
    /\ conc = [r \in Reqs |-> [overlapped |-> FALSE, superseded |-> FALSE]]
    /\ runs = 1
    /\ prevOut = <<>>
    /\ \E tasks \in EngTaskLists, windows \in EngWindowLists, P \in 1..MaxLen :
          eng = [pc |-> "build", tasks |-> tasks, windows |-> windows,
                 start_date |-> 0, end_date |-> MaxTick * EngTick, P |-> P,
                 time_horizon |-> 0, session_vars |-> <<>>, feasible |-> {},
                 objective_terms |-> <<>>, given_priority |-> <<>>,
                 status |-> "", solution |-> <<>>, scheduled_sessions |-> <<>>]

NextEngine ==
    \/ BuildModel
    \/ \E status \in SolverStatus :
         \E asg \in {<<>>} \cup eng.feasible : Solve(status, asg)
    \/ Extract

SpecEngine == InitEngine /\ [][NextEngine]_vars

\* a task created without a priority
NoPriority == "<missing>"

\* priority = params.get('priority', 'medium') when the task is created
CreatePriority(given) == IF given = NoPriority THEN "medium" ELSE given

\* the four priorities, a string that is none of them, and no priority
GivenPriorities == {"urgent", "high", "medium", "low", "someday", NoPriority}

\* whole days from start_date around every tier boundary
UrgencyDays == {-1, 0, 1, 2, 3, 4, 7, 8, 14, 15}

\* due instants on a day boundary, just before it and just after it
UrgencyDues == {d * SecondsPerDay + o : d \in UrgencyDays, o \in {-EngTick, 0, EngTick}}

\* one call of the engine for one stored task of any priority and due
\* date, with one window over the whole horizon
InitUrgency ==
    /\ db_users = [u \in Users |-> [preferred_session_length |-> 1, break_preference |-> 0]]
    /\ db_tasks = <<>>
    /\ db_rules = <<>>
    /\ db_sessions = {}
    /\ db_exceptions = <<>>
    /\ req = [r \in Reqs |-> [user_id |-> "u1", start_date |-> 0, end_date |-> 0]]
    /\ pc = [r \in Reqs |-> "idle"]
    /\ loc = [r \in Reqs |-> LocInit]
    /\ running = NoReq
    /\ nextId = 1
    /\ prior = [r \in Reqs |-> {}]
    /\ conc = [r \in Reqs |-> [overlapped |-> FALSE, superseded |-> FALSE]]
    /\ runs = 1
    /\ prevOut = <<>>
    /\ \E given \in GivenPriorities, due \in UrgencyDues, E \in 1..MaxEffort, P \in 1..MaxLen :
          eng = [pc |-> "build",
                 tasks |-> <<[id |-> "t1", due_date |-> due,
                              priority |-> CreatePriority(given),
                              estimated_minutes |-> E]>>,
                 windows |-> <<[start |-> 0, end |-> MaxTick * EngTick]>>,
                 start_date |-> 0, end_date |-> MaxTick * EngTick, P |-> P,
                 time_horizon |-> 0, session_vars |-> <<>>, feasible |-> {},
                 objective_terms |-> <<>>, given_priority |-> <<given>>,
                 status |-> "", solution |-> <<>>, scheduled_sessions |-> <<>>]

SpecUrgency == InitUrgency /\ [][NextEngine]_vars

\* tasks whose estimated_minutes may be 0 (the schema sets no minimum),
\* all due at the end of the horizon
EffortTaskDomain(id) == [id : {id}, due_date : {MaxTick * EngTick}, priority : {"low"},
                         estimated_minutes : 0..MaxEffort]

EffortTaskLists == {<<>>} \cup {<<a>> : a \in EffortTaskDomain("t1")}
                   \cup {<<a, b>> : a \in EffortTaskDomain("t1"), b \in EffortTaskDomain("t2")}

InitEffort ==
    /\ db_users = [u \in Users |-> [preferred_session_length |-> 1, break_preference |-> 0]]
    /\ db_tasks = <<>>
    /\ db_rules = <<>>
    /\ db_sessions = {}
    /\ db_exceptions = <<>>
    /\ req = [r \in Reqs |-> [user_id |-> "u1", start_date |-> 0, end_date |-> 0]]
    /\ pc = [r \in Reqs |-> "idle"]
    /\ loc = [r \in Reqs |-> LocInit]
    /\ running = NoReq
    /\ nextId = 1
    /\ prior = [r \in Reqs |-> {}]
    /\ conc = [r \in Reqs |-> [overlapped |-> FALSE, superseded |-> FALSE]]
    /\ runs = 1
    /\ prevOut = <<>>
    /\ \E tasks \in EffortTaskLists, windows \in EngWindowLists, P \in 1..MaxLen :
          eng = [pc |-> "build", tasks |-> tasks, windows |-> windows,
                 start_date |-> 0, end_date |-> MaxTick * EngTick, P |-> P,
                 time_horizon |-> 0, session_vars |-> <<>>, feasible |-> {},
                 objective_terms |-> <<>>, given_priority |-> <<>>,
                 status |-> "", solution |-> <<>>, scheduled_sessions |-> <<>>]

SpecEffort == InitEffort /\ [][NextEngine]_vars

\* the stored tasks as the engine takes them, instants in seconds
EngineTasks(tasks) ==
    [i \in 1..Len(tasks) |->
        [id |-> tasks[i].id, due_date |-> tasks[i].due_date * SecondsPerMinute,
         priority |-> tasks[i].priority,
         estimated_minutes |-> tasks[i].estimated_minutes]]

\* the same stored tasks, some due before start_date, given to a greedy run
\* (any horizon) and to one call of the engine that starts at the same instant
InitOverdue ==
    /\ db_users \in [Users -> Prefs]
    /\ db_users["u2"] = db_users["u1"]
    /\ db_tasks \in HorizonTaskLists("u1")
    /\ db_rules \in HorizonRuleLists("u1")
    /\ db_sessions = {}
    /\ db_exceptions = <<>>
    /\ \E h \in Horizons :
          req = [r \in Reqs |-> [user_id |-> "u1", start_date |-> h.start_date,
                                 end_date |-> h.end_date]]
    /\ pc = [r \in Reqs |-> IF r = "r1" THEN "find_user" ELSE "idle"]
    /\ loc = [r \in Reqs |-> LocInit]
    /\ running = NoReq
    /\ nextId = 1
    /\ prior = [r \in Reqs |-> {}]
    /\ conc = [r \in Reqs |-> [overlapped |-> FALSE, superseded |-> FALSE]]
    /\ runs = 1
    /\ prevOut = <<>>
    /\ eng = [pc |-> "build", tasks |-> EngineTasks(db_tasks),
              windows |-> <<[start |-> req["r1"].start_date * SecondsPerMinute,
                             end |-> req["r1"].start_date * SecondsPerMinute
                                       + MaxTick * EngTick]>>,
              start_date |-> req["r1"].start_date * SecondsPerMinute,
              end_date |-> req["r1"].start_date * SecondsPerMinute + MaxTick * EngTick,
              P |-> db_users["u1"].preferred_session_length,
              time_horizon |-> 0, session_vars |-> <<>>, feasible |-> {},
              objective_terms |-> <<>>, given_priority |-> <<>>,
              status |-> "", solution |-> <<>>, scheduled_sessions |-> <<>>]

\* the greedy run first, then the engine
NextOverdue == Next \/ (pc["r1"] = "done" /\ NextEngine)

SpecOverdue == InitOverdue /\ [][NextOverdue]_vars

\* the horizon of both schedulers: Monday 00:00 to 00:0(MaxTime + 1)
RefineEnd == MaxTime + 1

\* Monday rules from the first two minutes, up to one minute past the horizon
RefineRuleDomain(u) == {rl \in [user_id : {u}, day_of_week : {"monday"},
                                start_time : {0, 1}, end_time : 0..(RefineEnd + 1)] :
                           rl.start_time <= rl.end_time}

RefineRuleLists(u) == {<<>>} \cup {<<a>> : a \in RefineRuleDomain(u)}
                      \cup {<<a, b>> : a \in RefineRuleDomain(u), b \in RefineRuleDomain(u)}

\* an urgent task due inside the horizon or a low one due after it
RefineTaskDomain(u, id) ==
    {[id |-> id, user_id |-> u, priority |-> pf[1], due_date |-> pf[2],
      estimated_minutes |-> e, status |-> "pending"] :
        pf \in {<<"urgent", MaxTime>>, <<"low", 2 * MinutesPerDay>>}, e \in 1..MaxEst}

RefineTaskLists(u) == {<<>>} \cup {<<a>> : a \in RefineTaskDomain(u, "t1")}
                      \cup {<<a, b>> : a \in RefineTaskDomain(u, "t1"),
                                       b \in RefineTaskDomain(u, "t2")}

\* availability_windows: the window of every rule of the day, as the greedy
\* loop builds it (window_start, window_end), instants in seconds
EngineWindows(rules, current_date) ==
    [i \in 1..Len(rules) |->
        [start |-> ReplaceTime(current_date, ParseHour(rules[i].start_time),
                               ParseMinute(rules[i].start_time)) * SecondsPerMinute,
         end |-> ReplaceTime(current_date, ParseHour(rules[i].end_time),
                             ParseMinute(rules[i].end_time)) * SecondsPerMinute]]

\* the same tasks, rules, preferences and horizon given to a greedy run and
\* to one call of the engine
InitRefine ==
    /\ db_users \in [Users -> Prefs]
    /\ db_users["u2"] = db_users["u1"]
    /\ db_tasks \in RefineTaskLists("u1")
    /\ db_rules \in RefineRuleLists("u1")
    /\ db_sessions = {}
    /\ db_exceptions = <<>>
    /\ req = [r \in Reqs |-> [user_id |-> "u1", start_date |-> 0, end_date |-> RefineEnd]]
    /\ pc = [r \in Reqs |-> IF r = "r1" THEN "find_user" ELSE "idle"]
    /\ loc = [r \in Reqs |-> LocInit]
    /\ running = NoReq
    /\ nextId = 1
    /\ prior = [r \in Reqs |-> {}]
    /\ conc = [r \in Reqs |-> [overlapped |-> FALSE, superseded |-> FALSE]]
    /\ runs = 1
    /\ prevOut = <<>>
    /\ eng = [pc |-> "build", tasks |-> EngineTasks(db_tasks),
              windows |-> EngineWindows(db_rules, 0),
              start_date |-> 0, end_date |-> RefineEnd * SecondsPerMinute,
              P |-> db_users["u1"].preferred_session_length,
              time_horizon |-> 0, session_vars |-> <<>>, feasible |-> {},
              objective_terms |-> <<>>, given_priority |-> <<>>,
              status |-> "", solution |-> <<>>, scheduled_sessions |-> <<>>]

SpecRefine == InitRefine /\ [][NextOverdue]_vars

\* ------------------------------------------------------------------------
\* Properties of one greedy run and of its repetition (Spec)
\* ------------------------------------------------------------------------
Disjoint(a, b) == a.end_time <= b.start_time \/ b.end_time <= a.start_time

Out(r) == loc[r].scheduled_sessions

SeqToSet(seq) == {seq[i] : i \in 1..Len(seq)}

DueOf(task_id) == (CHOOSE t \in SeqToSet(db_tasks) : t.id = task_id).due_date

\* C1: in the session list of one scheduling run every two distinct
\* sessions are disjoint in time, whatever rules the user has stored.
C1_NoOverlapInRun ==
    \A r \in Reqs : \A i \in 1..Len(Out(r)) : \A j \in 1..Len(Out(r)) :
        i # j => Disjoint(Out(r)[i], Out(r)[j])

\* C4: the greedy path never places a session that ends after the due
\* instant of its task.
C4_GreedyDeadline ==
    \A r \in Reqs : \A i \in 1..Len(Out(r)) :
        Out(r)[i].end_time <= DueOf(Out(r)[i].task_id)

\* C9: a greedy run repeated with identical inputs returns the identical
\* sequence of sessions, and the stored planned sessions are then exactly
\* the sessions of the second run.
C9_IdempotentReplace ==
    \A r \in Reqs :
        (runs >= 2 /\ pc[r] = "done") =>
            /\ StripIds(Out(r)) = prevOut
            /\ StoredPlanned(req[r].user_id) = SeqToSet(Out(r))
            /\ Cardinality(StoredPlanned(req[r].user_id)) = Len(Out(r))

C9_Witness ==
    /\ runs >= 2 /\ pc["r1"] = "done"
    /\ Len(Out("r1")) >= 2
    /\ loc["r1"].deleted
    /\ prior["r1"] # {}

\* ------------------------------------------------------------------------
\* Properties of the stored sessions under concurrent requests (SpecConc)
\* ------------------------------------------------------------------------
\* no session of user u has left the planned status
NoEdits(u) == \A s \in db_sessions : s.user_id = u => s.status = "planned"

\* C3: whatever sequence of runs a user makes (one after the other), no two
\* stored sessions of that user overlap, retained sessions included.
C3_NoStoredOverlap ==
    (\A r \in Reqs : ~conc[r].overlapped /\ pc[r] # "failed") =>
        \A s1 \in db_sessions : \A s2 \in db_sessions :
            (s1 # s2 /\ s1.user_id = s2.user_id) => Disjoint(s1, s2)

\* C6: every step of a run of user u leaves the sessions of u that are
\* in_progress, completed or skipped as they are; its delete step leaves no
\* planned session of u; and it inserts only after that delete, when none
\* of the sessions that were planned at its entry is stored as planned.
C6_ReplaceFrame ==
    [][\A r \in Reqs : Step(r) =>
          /\ \A s \in db_sessions :
                (s.user_id = req[r].user_id /\ s.status # "planned") => s \in db_sessions'
          /\ pc[r] = "delete_many" => StoredPlanned(req[r].user_id)' = {}
          /\ pc[r] = "insert_one" =>
                /\ loc[r].deleted
                /\ prior[r] \cap StoredPlanned(req[r].user_id) = {}]_vars

C6_Witness ==
    \E r \in Reqs :
        /\ loc[r].deleted /\ Len(Out(r)) >= 1
        /\ prior[r] # {}
        /\ \E s \in db_sessions : s.user_id = req[r].user_id /\ s.status # "planned"
        /\ \E s \in prior[r] : s \notin db_sessions

\* C7: for a run that met no other run of its user, at every point where
\* other requests can look, the user's stored planned sessions are the
\* prior plan, or (once the run has returned) the complete new plan.
C7_AllOrNothing ==
    \A r \in Reqs :
        (/\ running = NoReq /\ (InFlight(r) \/ Ended(r))
         /\ ~conc[r].overlapped /\ ~conc[r].superseded
         /\ NoEdits(req[r].user_id)) =>
            IF pc[r] = "done" /\ loc[r].deleted
            THEN StoredPlanned(req[r].user_id) = SeqToSet(Out(r))
            ELSE StoredPlanned(req[r].user_id) = prior[r]

\* C8: when two runs of one user have both returned, the stored planned
\* sessions of the user are the output of exactly one of them.
C8_OneRunWins ==
    \A r1 \in Reqs : \A r2 \in Reqs \ {r1} :
        (/\ req[r1].user_id = req[r2].user_id
         /\ pc[r1] = "done" /\ pc[r2] = "done"
         /\ loc[r1].deleted /\ loc[r2].deleted
         /\ NoEdits(req[r1].user_id)) =>
            \/ StoredPlanned(req[r1].user_id) = SeqToSet(Out(r1))
            \/ StoredPlanned(req[r1].user_id) = SeqToSet(Out(r2))

\* ------------------------------------------------------------------------
\* Properties of the engine (SpecEngine)
\* ------------------------------------------------------------------------
\* the rule-derived window that the greedy loop is walking holds the session
\* it has sized, and every returned session lies in the window of some rule
\* of the user on the session's day
GreedyContained ==
    \A r \in Reqs :
        /\ pc[r] = "insert_one" =>
              /\ loc[r].session_dict.start_time >= loc[r].window_start
              /\ loc[r].session_dict.end_time <= loc[r].window_end
        /\ \A i \in 1..Len(Out(r)) :
              \E k \in 1..Len(loc[r].rules) :
                 LET rule == loc[r].rules[k]
                     s == Out(r)[i]
                 IN  /\ rule.day_of_week = DayName(s.start_time)
                     /\ ReplaceTime(s.start_time, ParseHour(rule.start_time),
                                    ParseMinute(rule.start_time)) <= s.start_time
                     /\ s.end_time <= ReplaceTime(s.start_time, ParseHour(rule.end_time),
                                                  ParseMinute(rule.end_time))

EngineContained ==
    \A i \in 1..Len(eng.scheduled_sessions) :
        \E k \in 1..Len(eng.windows) :
            /\ eng.windows[k].start <= eng.scheduled_sessions[i].start_time
            /\ eng.scheduled_sessions[i].end_time <= eng.windows[k].end

\* C2: every session emitted by either scheduler lies, from its start to
\* its end, inside one of the availability windows it was given.
C2_Containment ==
    /\ GreedyContained
    /\ eng.pc = "done" => EngineContained

\* C5: when the solver answers optimal or feasible, every emitted session
\* ends at or before the due instant of its task.
C5_Deadline ==
    (eng.pc = "done" /\ eng.status \in {"OPTIMAL", "FEASIBLE"}) =>
        \A i \in 1..Len(eng.scheduled_sessions) :
            eng.scheduled_sessions[i].end_time
                <= EngTask(eng.tasks, eng.scheduled_sessions[i].task_id).due_date

\* ceil(E / P) for E > 0 and P > 0
CeilDiv(E, P) == CHOOSE n \in 1..E : n * P >= E /\ (n - 1) * P < E

RECURSIVE SumDurations(_)
SumDurations(chunks) ==
    IF chunks = <<>> THEN 0 ELSE Head(chunks).duration + SumDurations(Tail(chunks))

ChunksOf(task_id) == SelectSeq(eng.session_vars, LAMBDA c : c.task_id = task_id)

ModelBuilt == eng.pc \in {"solve", "extract"} \/ (eng.pc = "done" /\ eng.status # "")

\* C10: a task of effort E > 0 is cut, for a session length P > 0, into
\* ceil(E/P) chunks in order, each of length P except a shorter last one
\* when P does not divide E; none is empty or longer than P, the lengths
\* sum to E, and E <= P gives the single chunk E.
C10_Decomposition ==
    ModelBuilt =>
        \A t \in 1..Len(eng.tasks) :
            LET E == eng.tasks[t].estimated_minutes
                P == eng.P
                ch == ChunksOf(eng.tasks[t].id)
                n == Len(ch)
            IN  /\ n = CeilDiv(E, P)
                /\ \A k \in 1..n :
                      /\ ch[k].session_idx = k - 1
                      /\ ch[k].duration >= 1 /\ ch[k].duration <= P
                      /\ k < n => ch[k].duration = P
                /\ ch[n].duration = IF E % P = 0 THEN P ELSE E % P
                /\ SumDurations(ch) = E
                /\ E <= P => (n = 1 /\ ch[1].duration = E)

C10_Witness ==
    /\ ModelBuilt
    /\ \E t \in 1..Len(eng.tasks) :
          /\ eng.tasks[t].estimated_minutes > eng.P
          /\ eng.tasks[t].estimated_minutes % eng.P # 0
          /\ Len(ChunksOf(eng.tasks[t].id)) = 2
    /\ \E t \in 1..Len(eng.tasks) : eng.tasks[t].estimated_minutes <= eng.P

\* ------------------------------------------------------------------------
\* Independence of users (SpecConc)
\* ------------------------------------------------------------------------
SessionsOfOthers(S, u) == {s \in S : s.user_id # u}

\* no other request of SpecConc belongs to the user of q
AloneForUser(q) == \A o \in Reqs \ {q} : req[o].user_id # req[q].user_id

\* C11: a step of a run of user A (a failure included) leaves alone every
\* stored session of another user, the tasks, rules and preferences, and the
\* position and locals of every run of another user; and a run of user B
\* that shares B with no other run ends with B's stored plan equal to its
\* own output, however runs of A were interleaved with it.
C11_UserIndependence ==
    /\ [][\A r \in Reqs : (Step(r) \/ Fail(r)) =>
            /\ SessionsOfOthers(db_sessions', req[r].user_id)
                  = SessionsOfOthers(db_sessions, req[r].user_id)
            /\ db_tasks' = db_tasks /\ db_rules' = db_rules /\ db_users' = db_users
            /\ \A q \in Reqs : req[q].user_id # req[r].user_id =>
                  (loc'[q] = loc[q] /\ pc'[q] = pc[q] /\ prior'[q] = prior[q])]_vars
    /\ [](\A q \in Reqs :
            (AloneForUser(q) /\ pc[q] = "done" /\ loc[q].deleted
             /\ NoEdits(req[q].user_id)) =>
                /\ StoredPlanned(req[q].user_id) = SeqToSet(Out(q))
                /\ \A i \in 1..Len(Out(q)) : Out(q)[i].user_id = req[q].user_id)

\* a run of one user has just deleted while the other user's run has
\* sessions stored, and then both runs return with sessions
C11_Witness ==
    \E r \in Reqs : \E q \in Reqs :
        /\ req[r].user_id # req[q].user_id
        /\ pc[r] = "done" /\ pc[q] = "done"
        /\ Len(Out(r)) >= 1 /\ Len(Out(q)) >= 2
        /\ Out(q)[1].id < Out(r)[1].id /\ Out(r)[1].id < Out(q)[2].id

\* ------------------------------------------------------------------------
\* What the caller receives (Spec, SpecEngine)
\* ------------------------------------------------------------------------
\* return {"sessions": ..., "message": ...}
ServerReply(r) == [sessions |-> Out(r), message |-> loc[r].message]

\* return scheduled_sessions: the list and nothing else
EngineReply == [sessions |-> eng.scheduled_sessions]

\* the reason a caller can read off a reply
ReplyReason(reply) ==
    IF "message" \notin DOMAIN reply THEN "none"
    ELSE CASE reply.message = "No pending tasks to schedule" -> "no_tasks"
           [] reply.message = "Please set your availability first" -> "no_availability"
           [] OTHER -> "none"

\* the engine returned at its first test, before building a model
EarlyReturn == eng.pc = "done" /\ eng.status = ""

\* the greedy run of a user without schedulable tasks, or with tasks and
\* without rules, returns no session and the message of its case
GreedyInputError ==
    \A r \in Reqs : pc[r] = "done" =>
        /\ FetchTasks(req[r].user_id) = <<>> =>
              /\ ServerReply(r).sessions = <<>>
              /\ ReplyReason(ServerReply(r)) = "no_tasks"
        /\ (FetchTasks(req[r].user_id) # <<>> /\ FetchRules(req[r].user_id) = <<>>) =>
              /\ ServerReply(r).sessions = <<>>
              /\ ReplyReason(ServerReply(r)) = "no_availability"

EngineInputError ==
    EarlyReturn =>
        /\ EngineReply.sessions = <<>>
        /\ ReplyReason(EngineReply) = IF eng.tasks = <<>> THEN "no_tasks"
                                      ELSE "no_availability"

\* C12: a run without schedulable tasks, or without availability, returns
\* no sessions and a reason that tells the two cases apart (no_tasks,
\* no_availability), on the greedy path and in the engine.
C12_InputError == GreedyInputError /\ EngineInputError

\* the solver has answered and the engine has returned
Solved == eng.pc = "done" /\ eng.status # ""

\* C13: the solver's answer is optimal, feasible, infeasible or nothing in
\* time; on the first two the engine emits the sessions of the solution, on
\* the last two it returns no session and a typed reason, infeasible or
\* timeout, which differs from the reasons of the input errors.
C13_SolverOutcome ==
    Solved =>
        /\ eng.status \in SolverStatus
        /\ eng.status \in {"OPTIMAL", "FEASIBLE"} =>
              /\ Len(EngineReply.sessions) = Len(eng.session_vars)
              /\ Len(EngineReply.sessions) >= 1
        /\ eng.status = "INFEASIBLE" =>
              /\ EngineReply.sessions = <<>>
              /\ ReplyReason(EngineReply) = "infeasible"
        /\ eng.status = "UNKNOWN" =>
              /\ EngineReply.sessions = <<>>
              /\ ReplyReason(EngineReply) = "timeout"

\* chunk i is longer than the time from start_date to the due instant of
\* its task: no start >= 0 lets it end by the deadline
Unplaceable(i) ==
    EngTask(eng.tasks, eng.session_vars[i].task_id).due_date - eng.start_date
        < eng.session_vars[i].duration * SecondsPerMinute

\* C14: when some chunk cannot end at or before the due instant of its
\* task, the engine finds no schedule: the solver does not answer optimal
\* or feasible and no session is emitted.
C14_InfeasibleDeadline ==
    (Solved /\ \E i \in 1..Len(eng.session_vars) : Unplaceable(i)) =>
        /\ eng.status \notin {"OPTIMAL", "FEASIBLE"}
        /\ EngineReply.sessions = <<>>

\* ------------------------------------------------------------------------
\* The horizon of a greedy run (SpecHorizon)
\* ------------------------------------------------------------------------
\* C15: every session of a greedy run starts at or after start_date and
\* ends at or before end_date, whatever the times of day of the two.
C15_InHorizon ==
    \A r \in Reqs : \A i \in 1..Len(Out(r)) :
        /\ Out(r)[i].start_time >= req[r].start_date
        /\ Out(r)[i].end_time <= req[r].end_date

\* ------------------------------------------------------------------------
\* Date exceptions (SpecExceptions)
\* ------------------------------------------------------------------------
DayOf(t) == t \div MinutesPerDay

ExceptionsOf(u) == {e \in SeqToSet(db_exceptions) : e.user_id = u}

\* an exception that blocks its whole day
BlocksDay(e) == ~e.is_available /\ e.start_time = NoTime /\ e.end_time = NoTime

\* an exception that adds a window long enough for one session
AddsWindow(e, session_length) ==
    /\ e.is_available /\ e.start_time # NoTime /\ e.end_time # NoTime
    /\ e.end_time - e.start_time >= session_length

\* C16: a returned run has no session on a day that an exception of the
\* user blocks as a whole; and when the user has tasks, no rule, and an
\* exception that adds a window in the horizon long enough for a session,
\* the run places a session.
C16_ExceptionsApplied ==
    \A r \in Reqs : pc[r] = "done" =>
        /\ \A e \in ExceptionsOf(req[r].user_id) :
              BlocksDay(e) =>
                 \A i \in 1..Len(Out(r)) : DayOf(Out(r)[i].start_time) # DayOf(e.date)
        /\ (/\ FetchTasks(req[r].user_id) # <<>>
            /\ FetchRules(req[r].user_id) = <<>>
            /\ \E e \in ExceptionsOf(req[r].user_id) :
                  AddsWindow(e, db_users[req[r].user_id].preferred_session_length))
              => Out(r) # <<>>

\* ------------------------------------------------------------------------
\* Validation of the rules and the leftovers of a run (Spec)
\* ------------------------------------------------------------------------
\* the run has fetched a rule whose end time is not after its start time
HasEmptyWindow(r) ==
    \E k \in 1..Len(loc[r].rules) :
        loc[r].rules[k].end_time <= loc[r].rules[k].start_time

\* C17: a run that has fetched a rule with a zero-length window deletes no
\* stored session, creates no session, and when it returns its reply is
\* a validation error.
C17_RuleValidation ==
    \A r \in Reqs : HasEmptyWindow(r) =>
        /\ ~loc[r].deleted
        /\ Out(r) = <<>>
        /\ pc[r] = "done" => ReplyReason(ServerReply(r)) = "validation_error"

\* the tasks still queued when the loop stopped: not fully scheduled
Leftover(r) == {loc[r].task_queue[k].id : k \in 1..Len(loc[r].task_queue)}

\* C18: a greedy run that went through its loop returns normally, and when
\* it stopped with tasks that are not fully scheduled its reply names them
\* as unscheduled.
C18_LeftoverReported ==
    \A r \in Reqs :
        (loc[r].deleted /\ pc[r] \in {"done", "failed"}) =>
            /\ pc[r] = "done"
            /\ Leftover(r) # {} =>
                  /\ "unscheduled" \in DOMAIN ServerReply(r)
                  /\ ServerReply(r).unscheduled = Leftover(r)

\* ------------------------------------------------------------------------
\* The objective's coefficients (SpecUrgency)
\* ------------------------------------------------------------------------
\* floor(x / 1 day), for x within the days of UrgencyDues
FloorDays(x) == CHOOSE d \in -3..17 : d * SecondsPerDay <= x /\ x < (d + 1) * SecondsPerDay

UrgencyTier(days) ==
    CASE days <= 1 -> 10
      [] days > 1 /\ days <= 3 -> 7
      [] days > 3 /\ days <= 7 -> 5
      [] days > 7 /\ days <= 14 -> 3
      [] OTHER -> 1

PriorityWeight(given) ==
    CASE given = "urgent" -> 10
      [] given = "high" -> 7
      [] given = "medium" -> 5
      [] given = "low" -> 3
      [] OTHER -> 5

C20_NoEffortNoChunk ==
    /\ ModelBuilt =>
          \A t \in 1..Len(eng.tasks) :
              eng.tasks[t].estimated_minutes <= 0 =>
                  /\ ChunksOf(eng.tasks[t].id) = <<>>
                  /\ \A i \in 1..Len(EngineReply.sessions) :
                        EngineReply.sessions[i].task_id # eng.tasks[t].id
    /\ eng.pc = "done" =>
          \A i \in 1..Len(EngineReply.sessions) :
              /\ EngineReply.sessions[i].planned_minutes > 0
              /\ EngineReply.sessions[i].end_time > EngineReply.sessions[i].start_time

\* ------------------------------------------------------------------------
\* Tasks past their due date (SpecOverdue)
\* ------------------------------------------------------------------------
\* the days the outer loop of run r visits
VisitedDays(r) == {k \in 0..1 : req[r].start_date + k * MinutesPerDay < req[r].end_date}

\* the starts of the windows run r walks that have room for a session
RoomStarts(r) ==
    {ReplaceTime(req[r].start_date + k * MinutesPerDay,
                 ParseHour(db_rules[i].start_time), ParseMinute(db_rules[i].start_time)) :
        <<k, i>> \in {ki \in VisitedDays(r) \X (1..Len(db_rules)) :
            /\ db_rules[ki[2]].user_id = req[r].user_id
            /\ db_rules[ki[2]].day_of_week
                   = DayName(req[r].start_date + ki[1] * MinutesPerDay)
            /\ db_rules[ki[2]].end_time - db_rules[ki[2]].start_time
                   >= db_users[req[r].user_id].preferred_session_length}}

Earliest(S) == CHOOSE x \in S : \A y \in S : x <= y

\* the head of the run's queue when the loop starts
QueueHead(r) == Sorted(FetchTasks(req[r].user_id))[1]

\* the engine keeps a task due before start_date (it has chunks) and puts
\* urgency 10 on each of them
EngineOverdueUrgent ==
    ModelBuilt =>
        \A t \in 1..Len(eng.tasks) :
            eng.tasks[t].due_date < eng.start_date =>
                /\ ChunksOf(eng.tasks[t].id) # <<>>
                /\ \A i \in 1..Len(eng.session_vars) :
                      eng.session_vars[i].task_id = eng.tasks[t].id =>
                         eng.objective_terms[i] = 10 * PriorityWeight(eng.tasks[t].priority)

\* the greedy run fetches a task due before start_date, and when that task
\* heads the queue its first session starts the first window with room
GreedyOverdueFirst ==
    \A r \in Reqs :
        /\ (pc[r] \notin {"idle", "find_user", "find_tasks"}) =>
               \A i \in 1..Len(db_tasks) :
                   (db_tasks[i].user_id = req[r].user_id
                    /\ db_tasks[i].due_date < req[r].start_date) =>
                       \E j \in 1..Len(loc[r].tasks) : loc[r].tasks[j].id = db_tasks[i].id
        /\ (pc[r] = "done" /\ loc[r].deleted
            /\ QueueHead(r).due_date < req[r].start_date
            /\ RoomStarts(r) # {}) =>
               /\ Out(r) # <<>>
               /\ Out(r)[1].task_id = QueueHead(r).id
               /\ Out(r)[1].start_time = Earliest(RoomStarts(r))

\* C21: a schedulable task whose due date is before the reference instant
\* has urgency tier 10, stays among the tasks both schedulers work on, and
\* on the greedy path gets its first session at the start of the first
\* window with room once it heads the queue.
C21_OverdueScheduled == EngineOverdueUrgent /\ GreedyOverdueFirst

C21_Witness ==
    /\ pc["r1"] = "done" /\ Len(Out("r1")) >= 1
    /\ QueueHead("r1").due_date < req["r1"].start_date
    /\ Len(db_tasks) = 2
    /\ eng.pc = "done" /\ eng.status = "OPTIMAL"
    /\ eng.tasks[1].due_date < eng.start_date
    /\ Len(eng.scheduled_sessions) >= 2

\* ------------------------------------------------------------------------
\* The order of the returned sessions (Spec)
\* ------------------------------------------------------------------------
\* C22: the sessions returned by a greedy run are in chronological order:
\* no session starts before the session that precedes it in the list.
C22_Chronological ==
    \A r \in Reqs : \A i \in 1..(Len(Out(r)) - 1) :
        Out(r)[i].start_time <= Out(r)[i + 1].start_time

\* urgent > high > medium > low, as a rank
PriorityRank(p) ==
    CASE p = "urgent" -> 1
      [] p = "high" -> 2
      [] p = "medium" -> 3
      [] p = "low" -> 4

\* stored task i goes before stored task j: higher priority, or the same
\* priority and an earlier due date, or a tie and stored first
RankedAhead(i, j) ==
    LET a == db_tasks[i]
        b == db_tasks[j]
    IN  \/ PriorityRank(a.priority) < PriorityRank(b.priority)
        \/ /\ a.priority = b.priority
           /\ \/ a.due_date < b.due_date
              \/ (a.due_date = b.due_date /\ i < j)

\* the minutes run r has returned for a task
RECURSIVE MinutesFor(_, _)
MinutesFor(seq, task_id) ==
    IF seq = <<>> THEN 0
    ELSE (IF Head(seq).task_id = task_id THEN Head(seq).planned_minutes ELSE 0)
         + MinutesFor(Tail(seq), task_id)

C24_ChunkWheneverRoom ==
    [][\A r \in Reqs :
          (/\ WhileSlot(r)
           /\ loc[r].task_queue # <<>>
           /\ TaskRemaining(Head(loc[r].task_queue)) > 0
           /\ loc[r].available_minutes > 0) =>
              /\ pc'[r] = "insert_one"
              /\ loc'[r].session_dict.start_time = loc[r].current_time
              /\ loc'[r].session_dict.planned_minutes
                    = Min(loc[r].session_length,
                          Min(TaskRemaining(Head(loc[r].task_queue)),
                              loc[r].available_minutes))]_vars

\* the last session run r has placed
LastOut(r) == Out(r)[Len(Out(r))]

\* the minutes still to schedule for the head of the queue of run r
HeadRemaining(r) == TaskRemaining(Head(loc[r].task_queue))

\* C25: the insert of a chunk moves the cursor of the window by the chunk's
\* duration plus the break and takes the same amount off the window's
\* remaining minutes, and takes the chunk's duration off the task's
\* remainder (the task leaves the queue when nothing is left); the next
\* chunk sized in the same window starts exactly break_preference minutes
\* after the end of the one before.
C25_CursorAdvance ==
    [][\A r \in Reqs :
          /\ InsertOne(r) =>
                LET d == loc[r].session_dict.planned_minutes
                    b == db_users[req[r].user_id].break_preference
                IN  /\ loc'[r].current_time = loc[r].current_time + d + b
                    /\ loc'[r].available_minutes = loc[r].available_minutes - (d + b)
                    /\ IF HeadRemaining(r) - d > 0
                       THEN /\ Len(loc'[r].task_queue) = Len(loc[r].task_queue)
                            /\ HeadRemaining(r)' = HeadRemaining(r) - d
                       ELSE loc'[r].task_queue = Tail(loc[r].task_queue)
          /\ (WhileSlot(r) /\ pc'[r] = "insert_one"
              /\ loc[r].current_time # loc[r].window_start) =>
                /\ Out(r) # <<>>
                /\ loc'[r].session_dict.start_time
                      = LastOut(r).end_time + db_users[req[r].user_id].break_preference]_vars

\* two sessions of two tasks in one window, one minute of break between them
C25_Witness ==
    /\ pc["r1"] = "done" /\ Len(Out("r1")) >= 2
    /\ db_users["u1"].break_preference = 1
    /\ Out("r1")[1].task_id # Out("r1")[2].task_id
    /\ Out("r1")[2].start_time = Out("r1")[1].end_time + 1
    /\ DayOf(Out("r1")[1].start_time) = DayOf(Out("r1")[2].start_time)
    /\ Len(db_rules) = 1

\* the run has built its queue
Queued(r) == pc[r] \in {"while_day", "for_rule", "while_slot", "insert_one",
                        "return", "done"} /\ loc[r].deleted

QueueIds(r) == {loc[r].task_queue[i].id : i \in 1..Len(loc[r].task_queue)}

\* C26: with a preferred length above zero every session of the greedy
\* run, the one being inserted included, lasts at least one minute from
\* start to end; the sessions of a task never sum to more than its
\* estimated minutes, and sum to exactly that once the task has left the
\* queue (a task of remainder zero leaves it without a session).
C26_PositiveChunks ==
    \A r \in Reqs :
        /\ \A i \in 1..Len(Out(r)) :
              /\ Out(r)[i].planned_minutes > 0
              /\ Out(r)[i].end_time > Out(r)[i].start_time
        /\ pc[r] = "insert_one" => loc[r].session_dict.planned_minutes > 0
        /\ \A s \in db_sessions : s.planned_minutes > 0
        /\ Queued(r) =>
              \A i \in 1..Len(loc[r].tasks) :
                 LET t == loc[r].tasks[i]
                 IN  /\ MinutesFor(Out(r), t.id) <= t.estimated_minutes
                     /\ t.id \notin QueueIds(r) =>
                           MinutesFor(Out(r), t.id) = t.estimated_minutes

\* a task is finished in the middle of a window and the next one, asking
\* for nothing, leaves the queue without a session
C26_Witness ==
    /\ pc["r1"] = "done" /\ Len(db_tasks) = 2 /\ Len(db_rules) = 1
    /\ db_tasks[1].estimated_minutes = 1 /\ db_tasks[2].estimated_minutes = 0
    /\ loc["r1"].task_queue = <<>>
    /\ Len(Out("r1")) = 1
    /\ Out("r1")[1].end_time < loc["r1"].window_end

\* ------------------------------------------------------------------------
\* The output of the engine (SpecEngine)
\* ------------------------------------------------------------------------
SessionsFor(seq, task_id) == SelectSeq(seq, LAMBDA s : s.task_id = task_id)

\* C27: when the solver answers optimal or feasible the engine returns, for
\* every input task, one session per chunk: ceil(E/P) sessions whose planned
\* minutes sum to the task's estimated minutes, each as long from start to
\* end as its planned minutes and of status planned, and no session of
\* anything else; on every other answer, and when it returns before solving,
\* it returns no session at all.
C27_AllOrNothing ==
    eng.pc = "done" =>
        IF eng.status \in {"OPTIMAL", "FEASIBLE"}
        THEN /\ \A t \in 1..Len(eng.tasks) :
                  LET mine == SessionsFor(eng.scheduled_sessions, eng.tasks[t].id)
                  IN  /\ Len(mine) = CeilDiv(eng.tasks[t].estimated_minutes, eng.P)
                      /\ MinutesFor(mine, eng.tasks[t].id)
                            = eng.tasks[t].estimated_minutes
             /\ \A i \in 1..Len(eng.scheduled_sessions) :
                  LET s == eng.scheduled_sessions[i]
                  IN  /\ s.end_time - s.start_time = s.planned_minutes * SecondsPerMinute
                      /\ s.status = PLANNED
                      /\ \E t \in 1..Len(eng.tasks) : eng.tasks[t].id = s.task_id
        ELSE eng.scheduled_sessions = <<>>

\* a feasible answer for two tasks, one of them in two chunks
C27_Witness ==
    /\ eng.pc = "done" /\ eng.status = "FEASIBLE"
    /\ Len(eng.tasks) = 2
    /\ Len(eng.scheduled_sessions) = 3

\* ------------------------------------------------------------------------
\* Termination of the greedy run (SpecWalkFair)
\* ------------------------------------------------------------------------
\* C28: with a preferred length above zero and a break of zero or more the
\* run reaches its return: a turn of the inner loop takes one task off the
\* queue, or sizes a chunk whose insert takes at least one minute off the
\* window, or leaves the window for the next rule of the day; every rule of
\* the day is visited once; the end of the rules moves the day on by one;
\* the outer loop is left only at end_date or with an empty queue.
C28_Terminates ==
    /\ <>(pc["r1"] = "done")
    /\ [][\A r \in Reqs :
            /\ (WhileSlot(r) /\ pc'[r] = "while_slot") =>
                  Len(loc'[r].task_queue) = Len(loc[r].task_queue) - 1
            /\ InsertOne(r) =>
                  loc'[r].available_minutes <= loc[r].available_minutes - 1
            /\ (WhileSlot(r) /\ pc'[r] = "for_rule") =>
                  loc'[r].rule_idx = loc[r].rule_idx + 1
            /\ (ForRule(r) /\ pc'[r] = "while_slot") =>
                  loc[r].rule_idx \in 1..Len(loc[r].day_rules)
            /\ (ForRule(r) /\ pc'[r] = "while_day") =>
                  loc'[r].current_date = loc[r].current_date + MinutesPerDay
            /\ (WhileDay(r) /\ pc'[r] = "return") =>
                  \/ loc[r].current_date >= req[r].end_date
                  \/ loc[r].task_queue = <<>>]_vars

\* the run has walked both days, two rules on one of them, with a task
\* still in the queue, and has returned
C28_Witness ==
    /\ pc["r1"] = "done" /\ loc["r1"].message = "created"
    /\ loc["r1"].current_date = req["r1"].end_date
    /\ loc["r1"].task_queue # <<>>
    /\ Len(db_rules) = 2 /\ db_rules[1].day_of_week = db_rules[2].day_of_week
    /\ Out("r1") # <<>>

\* ------------------------------------------------------------------------
\* The early returns and the stored plan (SpecEarly)
\* ------------------------------------------------------------------------
NoSchedulableTask(u) ==
    \A i \in 1..Len(db_tasks) :
        db_tasks[i].user_id = u => db_tasks[i].status \notin {"pending", "in_progress"}

NoRule(u) == \A i \in 1..Len(db_rules) : db_rules[i].user_id # u

\* C29: a request that finds no pending or in_progress task of its user
\* returns at once with the no-task message, rules or not; one that finds
\* tasks but no rule returns with the no-availability message; either way
\* the stored sessions are what they were when the request came in, the
\* planned ones included. A request that passes both tests removes every
\* planned session of its user, and none of those it found is stored when
\* it returns, whether or not it has scheduled anything.
C29_EarlyReturnFrame ==
    [][\A r \in Reqs :
          LET u == req[r].user_id
          IN  /\ (FindTasks(r) /\ NoSchedulableTask(u)) =>
                    /\ pc'[r] = "done"
                    /\ loc'[r].message = "No pending tasks to schedule"
              /\ (FindRules(r) /\ NoRule(u)) =>
                    /\ pc'[r] = "done"
                    /\ loc'[r].message = "Please set your availability first"
              /\ ((FindTasks(r) \/ FindRules(r)) /\ pc'[r] = "done") =>
                    /\ db_sessions' = db_sessions
                    /\ StoredPlanned(u)' = prior[r]
                    /\ Out(r)' = <<>>
              /\ (FindRules(r) /\ pc'[r] = "delete_many") =>
                    ~NoSchedulableTask(u) \/ loc[r].tasks # <<>>
              /\ DeleteMany(r) => StoredPlanned(u)' = {}
              /\ Return(r) => prior[r] \cap db_sessions' = {}]_vars

\* the second request finds neither task nor rule and keeps the plan of the first
C29_Witness ==
    /\ pc["r1"] = "done" /\ runs = 2
    /\ loc["r1"].message = "No pending tasks to schedule"
    /\ NoSchedulableTask("u1") /\ db_rules = <<>> /\ db_tasks # <<>>
    /\ prior["r1"] # {}
    /\ StoredPlanned("u1") = prior["r1"]

\* ------------------------------------------------------------------------
\* The greedy plan as an assignment of the constraint model (SpecRefine)
\* ------------------------------------------------------------------------
\* every stored task has all its minutes in the sessions of the run
GreedyComplete(r) ==
    /\ pc[r] = "done" /\ loc[r].deleted
    /\ \A i \in 1..Len(db_tasks) :
          MinutesFor(Out(r), db_tasks[i].id) = db_tasks[i].estimated_minutes

\* the windows of the rules are pairwise disjoint and lie in the horizon
WindowsDisjointInHorizon(r) ==
    /\ \A i \in 1..Len(db_rules) :
          /\ req[r].start_date <= db_rules[i].start_time
          /\ db_rules[i].end_time <= req[r].end_date
    /\ \A i \in 1..Len(db_rules) : \A j \in 1..Len(db_rules) :
          i # j => \/ db_rules[i].end_time <= db_rules[j].start_time
                   \/ db_rules[j].end_time <= db_rules[i].start_time

GreedyByDue(r) == \A i \in 1..Len(Out(r)) : Out(r)[i].end_time <= DueOf(Out(r)[i].task_id)

\* the greedy session that stands for chunk i of the engine
GreedySessionOf(r, i) ==
    SessionsFor(Out(r), eng.session_vars[i].task_id)[eng.session_vars[i].session_idx + 1]

\* the start offsets, in minutes from start_date, of the greedy sessions
GreedyAssignment(r) ==
    [i \in 1..Len(eng.session_vars) |-> GreedySessionOf(r, i).start_time - req[r].start_date]

====
